---- MODULE Spec2Model ----
(***************************************************************************)
(* A model of pypackmol.py: the Packmol packing session (options,          *)
(* structure list, last result), the packmol input serializer, the run    *)
(* executor `pack` with its outcome classification, and the `autosize`     *)
(* radius search.                                                          *)
(*                                                                         *)
(* Python values are tagged records [t, v] so that None, integers, floats  *)
(* and strings can live in the same dictionary.  A text (packmol output)   *)
(* is a sequence of tokens and a serialized input file is a sequence of    *)
(* lines, each line a sequence of blank-separated tokens.                  *)
(***************************************************************************)
EXTENDS Integers, Sequences, FiniteSets, TLC

(***************************************************************************)
(* Bounds of the model.                                                    *)
(***************************************************************************)
\* longest structure list the model builds
MaxStructs == 2
\* largest radius handed to autosize as min_radius or max_radius
MaxRadius == 4

(***************************************************************************)
(* Python values.                                                          *)
(***************************************************************************)
None == [t |-> "none", v |-> "None"]
Int_(n) == [t |-> "int", v |-> n]
Flt(n) == [t |-> "float", v |-> n]
Str(s) == [t |-> "str", v |-> s]

\* Python truth value of `x` (`if x`, `not x`)
Truthy(x) ==
    CASE x.t = "none" -> FALSE
      [] x.t = "int" -> x.v # 0
      [] x.t = "float" -> x.v # 0
      [] x.t = "str" -> x.v # ""

\* "{}".format(x): an integral float n prints as n.0
Fmt(x) ==
    CASE x.t = "int" -> ToString(x.v)
      [] x.t = "float" -> ToString(x.v) \o ".0"
      [] OTHER -> x.v

\* the empty keyword dictionary
NoKw == [k \in {} |-> None]

\* Iteration order of a Python 2 dict over the keys of the model: it is fixed
\* by the key hashes, not by the insertion order.
KeyOrder == <<"nloop", "output", "tolerance", "maxit", "command_line",
              "region_type", "seed", "dimension", "opt_force_field",
              "center", "fixed">>

\* dict.items(): the keys of d in iteration order
Items(d) == SelectSeq(KeyOrder, LAMBDA k : k \in DOMAIN d)

(***************************************************************************)
(* Exceptions: class FailToPack(Exception), and the builtin classes the    *)
(* code raises.  IsInstance decides what an `except cls` clause catches.   *)
(***************************************************************************)
\* FailToPack as another name of Exception: `FailToPack = Exception`
Bases_Alias ==
    [FailToPack |-> {"FailToPack", "Exception"},
     Exception |-> {"Exception", "FailToPack"},
     NotImplementedError |-> {"NotImplementedError", "Exception", "FailToPack"},
     IOError |-> {"IOError", "Exception", "FailToPack"},
     OSError |-> {"OSError", "Exception", "FailToPack"},
     TypeError |-> {"TypeError", "Exception", "FailToPack"},
     NameError |-> {"NameError", "Exception", "FailToPack"},
     ZeroDivisionError |-> {"ZeroDivisionError", "Exception", "FailToPack"},
     AttributeError |-> {"AttributeError", "Exception", "FailToPack"}]

\* lines 36-37, and the builtin classes: the classes an exception is an
\* instance of
Bases ==
    [FailToPack |-> {"FailToPack", "Exception"},
     Exception |-> {"Exception"},
     NotImplementedError |-> {"NotImplementedError", "Exception"},
     IOError |-> {"IOError", "Exception"},
     OSError |-> {"OSError", "Exception"},
     TypeError |-> {"TypeError", "Exception"},
     NameError |-> {"NameError", "Exception"},
     ZeroDivisionError |-> {"ZeroDivisionError", "Exception"},
     AttributeError |-> {"AttributeError", "Exception"}]

IsInstance(exc, cls) == cls \in Bases[exc]

(***************************************************************************)
(* The collaborators: the file system, OpenBabel (pybel) and the clock.    *)
(***************************************************************************)
\* the paths that open() can open, with their content
FileContent ==
    [water_xyz |-> "3 water O H H", mol_pdb |-> "ATOM C", big_XYZ |-> "1 big Ar"]

Openable(path) == path \in DOMAIN FileContent

\* input_data.split(".")[-1] for the strings of the model
Extension(path) ==
    CASE path = "water_xyz" -> "xyz"
      [] path = "missing_xyz" -> "xyz"
      [] path = "mol_pdb" -> "pdb"
      [] path = "big_XYZ" -> "XYZ"
      [] OTHER -> path

\* str.lower() for the format names of the model
Lower(s) ==
    CASE s = "XYZ" -> "xyz"
      [] s = "AUTO" -> "auto"
      [] s = "SMI" -> "smi"
      [] OTHER -> s

\* the strings pybel.readstring("smi", .) parses
ValidSmiles == {"CCO"}

\* mol.write("xyz") of the molecule built from a SMILES string with a force field
SmilesXyz(smiles, force_field) == "xyz of " \o smiles \o " by " \o force_field

\* tempfile.NamedTemporaryFile(suffix="xyz").name: a name no live file has.
\* The names are interchangeable, so the model takes the first free one.
TmpName(i) == "tmp" \o ToString(i) \o "xyz"

FreshName(used) ==
    TmpName(CHOOSE i \in 0..Cardinality(used) :
                /\ TmpName(i) \notin used
                /\ \A j \in 0..(i - 1) : TmpName(j) \in used)

\* hash(x) of Python 2 for the seeds of the model: an integer hashes to itself
\* except -1, an integral float to its integer value, None and strings to
\* a fixed large number
Hash(x) ==
    CASE x.t = "int" -> (IF x.v = -1 THEN -2 ELSE x.v)
      [] x.t = "float" -> (IF x.v = -1 THEN -2 ELSE x.v)
      [] OTHER -> 1234567891

(***************************************************************************)
(* convert_to_xyz(input_data, input_format, force_field)                   *)
(* The result is [raised, exc, content]: the exception raised, or the      *)
(* content written to the temporary xyz file.                              *)
(***************************************************************************)
Raise(e) == [raised |-> TRUE, exc |-> e, content |-> ""]
Content(c) == [raised |-> FALSE, exc |-> "", content |-> c]

\* lines 63-69: the format after lower() and the "auto" detection
ResolveFormat(input_data, input_format) ==
    IF Lower(input_format) = "auto"
    THEN (IF Openable(input_data) THEN Extension(input_data) ELSE "smi")
    ELSE Lower(input_format)

convert_to_xyz(input_data, input_format, force_field, has_openbabel) ==
    LET fmt == ResolveFormat(input_data, input_format)
    IN  IF fmt = "xyz"
        THEN (IF Openable(input_data)
              THEN Content(FileContent[input_data])
              ELSE Raise("IOError"))
        ELSE IF ~has_openbabel
        THEN \* `raise ImportWarning[...]` subscripts a class
             Raise("TypeError")
        ELSE IF fmt = "smi"
        THEN (IF input_data \in ValidSmiles
              THEN Content(SmilesXyz(input_data, force_field.v))
              ELSE Raise("IOError"))
        ELSE \* `imput_format` on line 84 is an undefined name
             Raise("NameError")

(***************************************************************************)
(* The session: class Packmol.                                             *)
(***************************************************************************)
\* a list of internal options that lacks "dimension"
NONPACKMOL_OPTIONS_NoDimension ==
    {"command_line", "region_type", "opt_force_field", "seed"}

\* line 102
NONPACKMOL_OPTIONS ==
    {"command_line", "region_type", "dimension", "opt_force_field", "seed"}

\* lines 124-126: the default options of a new session
DefaultOptions ==
    [command_line |-> Str("packmol"), region_type |-> Str("sphere"),
     seed |-> None, dimension |-> Int_(10), tolerance |-> Flt(3),
     output |-> Str("packed.xyz"), nloop |-> Int_(100),
     opt_force_field |-> Str("uff")]

\* options that keep the value they have: self._options.setdefault(key, value)
SetOptionsResult_KeepOld(options, kwargs) ==
    [k \in DOMAIN options \cup DOMAIN kwargs |->
        IF k \in DOMAIN options THEN options[k] ELSE kwargs[k]]

\* lines 136-137: self._options[key] = value for every keyword given
SetOptionsResult(options, kwargs) ==
    [k \in DOMAIN options \cup DOMAIN kwargs |->
        IF k \in DOMAIN kwargs THEN kwargs[k] ELSE options[k]]

(***************************************************************************)
(* _prepare_input_file: the packmol input, a sequence of lines.            *)
(***************************************************************************)
\* the modulus of the seed line, 10**9 on line 156
SeedModulus == 1000000000

\* a seed written without the reduction: hash(ranseed)
SeedValue_NoModulus(options, clock) ==
    Hash(IF Truthy(options["seed"]) THEN options["seed"] ELSE clock)

\* lines 154-156: hash(ranseed) % 10**9; `clock` is the value of time.clock()
SeedValue(options, clock) ==
    LET ranseed == IF Truthy(options["seed"]) THEN options["seed"] ELSE clock
    IN  Hash(ranseed) % SeedModulus

\* line 156: the seed line
SeedLine(options, clock) == <<"seed", ToString(SeedValue(options, clock))>>

\* lines 159-161 and 171-172: one "key value" line per item, `skip` left out
RECURSIVE OptionLines(_, _, _)
OptionLines(d, keys, skip) ==
    IF keys = <<>>
    THEN <<>>
    ELSE (IF Head(keys) \in skip
          THEN <<>>
          ELSE << <<Head(keys), Fmt(d[Head(keys)])>> >>)
         \o OptionLines(d, Tail(keys), skip)

\* lines 166-170: what the region clause of a block is: the clause, nothing,
\* or NotImplementedError
RegionUnsupported(options) ==
    /\ options["region_type"] # Str("sphere")
    /\ Truthy(options["region_type"])

\* an inside clause that carries the default dimension whatever the option holds
RegionLines_DefaultRadius(options) ==
    IF options["region_type"] = Str("sphere")
    THEN << <<"inside", "sphere", "0.0", "0.0", "0.0", "10">> >>
    ELSE <<>>

RegionLines(options) ==
    IF options["region_type"] = Str("sphere")
    THEN << <<"inside", "sphere", "0.0", "0.0", "0.0", Fmt(options["dimension"])>> >>
    ELSE <<>>

\* lines 164-173: the block of one structure
StructureBlock(options, mol_type) ==
    << <<"structure", mol_type.structure.name>>,
       <<"number", ToString(mol_type.number)>> >>
    \o RegionLines(options)
    \o OptionLines(mol_type.options, Items(mol_type.options), {})
    \o << <<"end", "structure">> >>

\* the blocks written from the last structure to the first
RECURSIVE StructureBlocks_Reversed(_, _)
StructureBlocks_Reversed(options, structure_list) ==
    IF structure_list = <<>>
    THEN <<>>
    ELSE StructureBlocks_Reversed(options, Tail(structure_list))
         \o StructureBlock(options, Head(structure_list))

RECURSIVE StructureBlocks(_, _)
StructureBlocks(options, structure_list) ==
    IF structure_list = <<>>
    THEN <<>>
    ELSE StructureBlock(options, Head(structure_list))
         \o StructureBlocks(options, Tail(structure_list))

\* lines 151-178: [raised, text].  The region check sits inside the loop over
\* the structures, so it raises only when there is a structure.
PrepareInputFile(options, structure_list, clock) ==
    IF structure_list # <<>> /\ RegionUnsupported(options)
    THEN [raised |-> TRUE, text |-> <<>>]
    ELSE [raised |-> FALSE,
          text |-> << <<"filetype", "xyz">>, SeedLine(options, clock) >>
                   \o OptionLines(options, Items(options), NONPACKMOL_OPTIONS)
                   \o StructureBlocks(options, structure_list)]

(***************************************************************************)
(* pack: one run of the packmol program.                                   *)
(***************************************************************************)
\* `marker in text`
Contains(text, marker) == \E i \in 1..Len(text) : text[i] = marker

\* the commands subprocess.call can start
Installed == {"packmol"}

\* ff.Energy() of the packed geometry read back from `filename`
EnergyOf(filename, force_field) ==
    "energy of " \o filename.v \o " by " \o force_field.v

\* the checks with "STOP" looked for before "ERROR"
RunFailure_StopFirst(code, text) ==
    IF code # 0 THEN "Exception"
    ELSE IF Contains(text, "STOP") THEN "FailToPack"
    ELSE IF Contains(text, "ERROR") THEN "Exception"
    ELSE ""

\* lines 229-236: the exception the checks of the exit code and of the
\* captured output raise, "" when none of them does
RunFailure(code, text) ==
    IF code # 0 THEN "Exception"
    ELSE IF Contains(text, "ERROR") THEN "Exception"
    ELSE IF Contains(text, "STOP") THEN "FailToPack"
    ELSE ""

\* the output argument stored whatever it is, None included
PackOptions_Always(options, output) == [options EXCEPT !["output"] = output]

\* lines 222-223: an output argument that is true becomes the output option
PackOptions(options, output) ==
    IF Truthy(output) THEN [options EXCEPT !["output"] = output] ELSE options

\* lines 237-242: the result of a run that passed the checks; with OpenBabel
\* the packed file is read back and its energy added (the calls into pybel are
\* taken to return)
PackResultDict(options, text, has_openbabel) ==
    IF has_openbabel
    THEN [filename |-> options["output"], packmol_output |-> text,
          energy |-> EnergyOf(options["output"], options["opt_force_field"])]
    ELSE [filename |-> options["output"], packmol_output |-> text]

\* line 237 after lines 229-236: self._last_result after a run whose checks
\* raised `exc` ("" when they raised nothing)
LastResultAfter(last_result, exc, result) ==
    IF exc = "" THEN <<result>> ELSE last_result

\* lines 222-243.  `s` is the session [options, structure_list, last_result];
\* the result is the session after the call, exc, the exception raised ("" when
\* pack returns self._last_result), and what the call assigned to
\* self._input_stash and self._output_stash (<<>> when it did not).
Pack(s, has_openbabel, output, code, text, clock) ==
    LET opts == PackOptions(s.options, output)
        inp == PrepareInputFile(opts, s.structure_list, clock)
        s1 == [s EXCEPT !.options = opts]
    IN  IF inp.raised
        THEN [s |-> s1, exc |-> "NotImplementedError",
              input_stash |-> <<>>, output_stash |-> <<>>]
        ELSE IF opts["command_line"].v \notin Installed
        THEN [s |-> s1, exc |-> "OSError",
              input_stash |-> <<inp.text>>, output_stash |-> <<>>]
        ELSE LET exc == RunFailure(code, text)
                 res == PackResultDict(opts, text, has_openbabel)
             IN  [s |-> [s1 EXCEPT !.last_result =
                                      LastResultAfter(s.last_result, exc, res)],
                  exc |-> exc,
                  input_stash |-> <<inp.text>>, output_stash |-> <<text>>]

(***************************************************************************)
(* autosize: the radii np.arange(min_radius, max_radius, increment) yields *)
(* for integer arguments (the rounding of a float range is not modelled).  *)
(***************************************************************************)
\* a range that also takes the stop value: floor((stop - start) / step) + 1
ArangeLen_Inclusive(start, stop, step) ==
    IF step > 0
    THEN (IF stop >= start THEN (stop - start) \div step + 1 ELSE 0)
    ELSE (IF stop <= start THEN (start - stop) \div (-step) + 1 ELSE 0)

\* the length of the range: ceil((stop - start) / step), at least 0
ArangeLen(start, stop, step) ==
    IF step > 0
    THEN (IF stop > start THEN (stop - start + step - 1) \div step ELSE 0)
    ELSE (IF stop < start THEN (start - stop - step - 1) \div (-step) ELSE 0)

\* a range that forgets the increment: np.arange(min_radius, max_radius)
Arange_UnitStep(start, stop, step) ==
    [i \in 1..(IF stop > start THEN stop - start ELSE 0) |-> start + (i - 1)]

\* line 263: np.arange(start, stop, step)
Arange(start, stop, step) ==
    [i \in 1..ArangeLen(start, stop, step) |-> start + (i - 1) * step]

\* line 264 left out: the option keeps its value
AutosizeOptions_Unset(options, r) == options

\* line 264: self.set_options(dimension=r)
AutosizeOptions(options, r) == SetOptionsResult(options, [dimension |-> Int_(r)])

\* a loop that tries the same radius again after a failure
NextIdx_Stay(i) == i

\* line 263: the loop goes on with the next element of the range
NextIdx(i) == i + 1

\* a loop that swallows every exception: `except Exception`
AutosizeCatches_Exception(exc) == IsInstance(exc, "Exception")

\* line 271: the exceptions the loop of autosize swallows
AutosizeCatches(exc) == IsInstance(exc, "FailToPack")

(***************************************************************************)
(* The state.  self._input_stash, self._output_stash and self._packed are  *)
(* snapshots that no code of the module reads; the model keeps what a call *)
(* assigned to the first two in `ret`, the record of the latest call.      *)
(***************************************************************************)
VARIABLES
    _structure_list,  \* self._structure_list: [structure, number, options]
    _options,         \* self._options
    _last_result,     \* <<self._last_result>>, <<>> while the attribute is unset
    _has_openbabel,   \* the module flag set by `import pybel`
    pc,               \* "idle", or "autosize" inside the loop of autosize
    radii,            \* autosize: the range the loop iterates over
    idx,              \* autosize: the position of the next radius in radii
    ret,              \* the latest call: [op, args, exc, val, input_stash,
                      \* output_stash]; the args of clear are <<the number of
                      \* entries it discarded>>
    runs              \* the runs of the latest call of autosize: [r, exc, code,
                      \* out]: the radius, the exception pack raised ("" for
                      \* none), <<exit code>> and <<captured output>> of the
                      \* process (<<>> when it was not started)

vars == <<_structure_list, _options, _last_result, _has_openbabel,
          pc, radii, idx, ret, runs>>

Session ==
    [options |-> _options, structure_list |-> _structure_list,
     last_result |-> _last_result]

\* the session becomes s
SessionBecomes(s) ==
    /\ _options' = s.options
    /\ _structure_list' = s.structure_list
    /\ _last_result' = s.last_result

\* a call that returned val / that raised exc
Returned(op, args, val) ==
    [op |-> op, args |-> args, exc |-> "", val |-> val,
     input_stash |-> <<>>, output_stash |-> <<>>]
Raised(op, args, exc) ==
    [op |-> op, args |-> args, exc |-> exc, val |-> None,
     input_stash |-> <<>>, output_stash |-> <<>>]

\* the value pack returns: the dictionary self._last_result itself
TheLastResult == [t |-> "dict", v |-> "_last_result"]
\* the value _prepare_input_file returns: the file holding self._input_stash
TheInputFile == [t |-> "file", v |-> "_input_stash"]
\* no value yet: the call is still running
Running == [t |-> "running", v |-> "running"]

NotInAutosize == UNCHANGED <<pc, radii, idx>>

\* a constructor that starts the attribute as an empty dictionary:
\* self._last_result = {}
Construct_EmptyResult(kwargs) ==
    /\ _structure_list = <<>>
    /\ _options = SetOptionsResult(DefaultOptions, kwargs)
    /\ _last_result = << <<>> >>
    /\ pc = "idle"
    /\ radii = <<>>
    /\ idx = 0
    /\ ret = Returned("__init__", <<kwargs>>, None)
    /\ runs = <<>>

(***************************************************************************)
(* The operations.                                                         *)
(***************************************************************************)
\* lines 122-127: Packmol(**kwargs)
Construct(kwargs) ==
    /\ _structure_list = <<>>
    /\ _options = SetOptionsResult(DefaultOptions, kwargs)
    /\ _last_result = <<>>
    /\ pc = "idle"
    /\ radii = <<>>
    /\ idx = 0
    /\ ret = Returned("__init__", <<kwargs>>, None)
    /\ runs = <<>>

\* lines 132-137
set_options(kwargs) ==
    /\ pc = "idle"
    /\ _options' = SetOptionsResult(_options, kwargs)
    /\ ret' = Returned("set_options", <<kwargs>>, None)
    /\ runs' = <<>>
    /\ NotInAutosize
    /\ UNCHANGED <<_structure_list, _last_result, _has_openbabel>>

\* a clear that drops the last structure only: self._structure_list.pop()
ClearResult_PopLast(structure_list) ==
    SubSeq(structure_list, 1, Len(structure_list) - 1)

\* line 183
ClearResult(structure_list) == <<>>

\* lines 181-183
clear ==
    /\ pc = "idle"
    /\ _structure_list' = ClearResult(_structure_list)
    /\ ret' = Returned("clear", <<Len(_structure_list)>>, None)
    /\ runs' = <<>>
    /\ NotInAutosize
    /\ UNCHANGED <<_options, _last_result, _has_openbabel>>

\* the names of the temporary files the structure list holds
LiveNames(structure_list) ==
    {structure_list[i].structure.name : i \in 1..Len(structure_list)}

\* a list that takes the new structure at its head: insert(0, .)
AddStructureResult_AtHead(structure_list, content, count, kwargs) ==
    <<[structure |-> [name |-> FreshName(LiveNames(structure_list)),
                      content |-> content],
       number |-> count,
       options |-> kwargs]>> \o structure_list

\* lines 201-206: the list after a conversion that returned `content`
AddStructureResult(structure_list, content, count, kwargs) ==
    Append(structure_list,
           [structure |-> [name |-> FreshName(LiveNames(structure_list)),
                           content |-> content],
            number |-> count,
            options |-> kwargs])

\* lines 186-206
add_structure(call) ==
    /\ pc = "idle"
    /\ Len(_structure_list) < MaxStructs
    /\ LET conv == convert_to_xyz(call.input_data, call.input_format,
                                  _options["opt_force_field"], _has_openbabel)
       IN  IF conv.raised
           THEN /\ ret' = Raised("add_structure", <<call>>, conv.exc)
                /\ UNCHANGED _structure_list
           ELSE /\ ret' = Returned("add_structure", <<call>>, None)
                /\ _structure_list' =
                       AddStructureResult(_structure_list, conv.content,
                                          call.count, call.kwargs)
    /\ runs' = <<>>
    /\ NotInAutosize
    /\ UNCHANGED <<_options, _last_result, _has_openbabel>>

\* lines 142-178
prepare_input_file(clock) ==
    /\ pc = "idle"
    /\ LET inp == PrepareInputFile(_options, _structure_list, clock)
       IN  ret' = IF inp.raised
                  THEN Raised("_prepare_input_file", <<>>, "NotImplementedError")
                  ELSE [Returned("_prepare_input_file", <<>>, TheInputFile)
                           EXCEPT !.input_stash = <<inp.text>>]
    /\ runs' = <<>>
    /\ NotInAutosize
    /\ UNCHANGED <<_structure_list, _options, _last_result, _has_openbabel>>

\* lines 210-243
pack(output, code, text, clock) ==
    /\ pc = "idle"
    /\ LET p == Pack(Session, _has_openbabel, output, code, text, clock)
           r == IF p.exc = ""
                THEN Returned("pack", <<output, code, text>>, TheLastResult)
                ELSE Raised("pack", <<output, code, text>>, p.exc)
       IN  /\ SessionBecomes(p.s)
           /\ ret' = [r EXCEPT !.input_stash = p.input_stash,
                               !.output_stash = p.output_stash]
    /\ runs' = <<>>
    /\ NotInAutosize
    /\ UNCHANGED _has_openbabel

\* lines 246-248: the attribute is read; it does not exist before a run stored it
last_result ==
    /\ pc = "idle"
    /\ ret' = IF _last_result = <<>>
              THEN Raised("last_result", <<>>, "AttributeError")
              ELSE Returned("last_result", <<>>, TheLastResult)
    /\ runs' = <<>>
    /\ NotInAutosize
    /\ UNCHANGED <<_structure_list, _options, _last_result, _has_openbabel>>

\* line 263: autosize(min_radius, max_radius, increment) evaluates the range:
\* np.arange raises for a zero step, and an empty range ends the call at once
autosize_call(min_radius, max_radius, increment) ==
    /\ pc = "idle"
    /\ runs' = <<>>
    /\ LET args == <<min_radius, max_radius, increment>>
       IN  IF increment = 0
           THEN /\ ret' = Raised("autosize", args, "ZeroDivisionError")
                /\ NotInAutosize
           ELSE IF Arange(min_radius, max_radius, increment) = <<>>
           THEN /\ ret' = Returned("autosize", args, None)
                /\ NotInAutosize
           ELSE /\ ret' = Returned("autosize", args, Running)
                /\ pc' = "autosize"
                /\ radii' = Arange(min_radius, max_radius, increment)
                /\ idx' = 1
    /\ UNCHANGED <<_structure_list, _options, _last_result, _has_openbabel>>

\* lines 264-272: one pass of the loop, and the end of the loop after it
autosize_step(code, text, clock) ==
    /\ pc = "autosize"
    /\ LET r == radii[idx]
           s == [Session EXCEPT !.options = AutosizeOptions(_options, r)]
           p == Pack(s, _has_openbabel, None, code, text, clock)
           end == IF p.exc = "" THEN Returned("autosize", ret.args, Int_(r))
                  ELSE IF ~AutosizeCatches(p.exc)
                  THEN Raised("autosize", ret.args, p.exc)
                  ELSE IF idx = Len(radii)
                  THEN Returned("autosize", ret.args, None)
                  ELSE Returned("autosize", ret.args, Running)
       IN  /\ SessionBecomes(p.s)
           /\ runs' = Append(runs, [r |-> r, exc |-> p.exc,
                                    code |-> IF p.output_stash = <<>> THEN <<>> ELSE <<code>>,
                                    out |-> p.output_stash])
           /\ ret' = [end EXCEPT !.input_stash = p.input_stash,
                                 !.output_stash = p.output_stash]
           /\ IF end.val = Running
              THEN /\ idx' = NextIdx(idx)
                   /\ UNCHANGED <<pc, radii>>
              ELSE /\ pc' = "idle"
                   /\ radii' = <<>>
                   /\ idx' = 0
    /\ UNCHANGED _has_openbabel

(***************************************************************************)
(* The inputs of the model.                                                *)
(***************************************************************************)
\* keyword options given to the constructor
CtorKwargs == {NoKw, [tolerance |-> Flt(2)]}

\* keyword options given to set_options
OptionKwargs ==
    {[region_type |-> Str("cube")], [region_type |-> Str("")],
     [region_type |-> Str("sphere"), tolerance |-> Flt(2)],
     [tolerance |-> Flt(3)], [maxit |-> Int_(20)],
     [maxit |-> Int_(5), seed |-> Int_(7)], [seed |-> Int_(0)],
     [dimension |-> Int_(7)], [region_type |-> None]}

\* keyword options given to set_options before runs
RunKwargs ==
    {[region_type |-> Str("cube")], [region_type |-> Str("sphere")],
     [command_line |-> Str("packmol_x")], [command_line |-> Str("packmol")]}

\* seeds given to set_options
SeedKwargs ==
    {[seed |-> None], [seed |-> Int_(0)], [seed |-> Int_(7)], [seed |-> Int_(-1)],
     [seed |-> Int_(1000000007)]}

\* keyword options given to set_options before autosize
AutosizeKwargs == {[region_type |-> Str("cube")], [region_type |-> Str("sphere")]}

\* the calls of add_structure
AddCalls ==
    {[input_data |-> "water_xyz", count |-> 1, input_format |-> "auto", kwargs |-> NoKw],
     [input_data |-> "CCO", count |-> 2, input_format |-> "auto",
      kwargs |-> [center |-> Str(""), fixed |-> Str("0. 0. 0. 0. 0. 0.")]],
     [input_data |-> "water_xyz", count |-> 0, input_format |-> "XYZ", kwargs |-> NoKw],
     [input_data |-> "missing_xyz", count |-> 1, input_format |-> "xyz", kwargs |-> NoKw],
     [input_data |-> "mol_pdb", count |-> 1, input_format |-> "auto", kwargs |-> NoKw],
     [input_data |-> "big_XYZ", count |-> 3, input_format |-> "auto", kwargs |-> NoKw],
     [input_data |-> "C((", count |-> 1, input_format |-> "auto", kwargs |-> NoKw]}

\* the calls of add_structure before runs
RunAddCalls ==
    {[input_data |-> "water_xyz", count |-> 1, input_format |-> "auto", kwargs |-> NoKw],
     [input_data |-> "missing_xyz", count |-> 1, input_format |-> "xyz", kwargs |-> NoKw]}

\* the call of add_structure before the runs of autosize that must end
FairAddCalls ==
    {[input_data |-> "water_xyz", count |-> 1, input_format |-> "auto", kwargs |-> NoKw]}

\* the output argument of pack
Outputs == {None, Str("out.xyz")}

\* exit codes and captured outputs of the packmol process
Codes == {0, 1}
Texts == {<<>>, <<"Success">>, <<"STOP">>, <<"ERROR">>, <<"STOP", "ERROR">>}
AutosizeTexts == {<<"Success">>, <<"STOP">>, <<"ERROR">>}
FairTexts == {<<"Success">>, <<"STOP">>}

\* values of time.clock()
Clocks == {Flt(1), Flt(2)}
AutosizeClocks == {Flt(1)}

\* the arguments of autosize
Radii == 0..MaxRadius
Increments == {-1, 0, 1, 2}

(***************************************************************************)
(* The specifications.  Spec: the session store and the serializer.        *)
(* SpecRun: sessions and single runs.  SpecAutosize: sessions and          *)
(* autosize.                                                               *)
(***************************************************************************)
Init ==
    /\ _has_openbabel \in BOOLEAN
    /\ \E kwargs \in CtorKwargs : Construct(kwargs)

InitDefault ==
    /\ _has_openbabel \in BOOLEAN
    /\ Construct(NoKw)

Next ==
    \/ \E kwargs \in OptionKwargs : set_options(kwargs)
    \/ clear
    \/ \E call \in AddCalls : add_structure(call)
    \/ \E clock \in Clocks : prepare_input_file(clock)

Spec == Init /\ [][Next]_vars

NextRun ==
    \/ \E kwargs \in RunKwargs : set_options(kwargs)
    \/ clear
    \/ \E call \in RunAddCalls : add_structure(call)
    \/ \E output \in Outputs, code \in Codes, text \in Texts, clock \in Clocks :
          pack(output, code, text, clock)
    \/ last_result

SpecRun == InitDefault /\ [][NextRun]_vars

NextAutosize ==
    \/ \E kwargs \in AutosizeKwargs : set_options(kwargs)
    \/ \E call \in RunAddCalls : add_structure(call)
    \/ \E min_radius \in Radii, max_radius \in Radii, increment \in Increments :
          autosize_call(min_radius, max_radius, increment)
    \/ \E code \in Codes, text \in AutosizeTexts, clock \in AutosizeClocks :
          autosize_step(code, text, clock)

SpecAutosize == InitDefault /\ [][NextAutosize]_vars

\* a call of pack blocks until the packmol process has ended and then the loop
\* of autosize goes on: a pass of the loop that can be made is made
\* a pass of the loop with the outcomes of a run that matter to its end:
\* success, FailToPack and a non-zero exit status
FairStep ==
    \E code \in Codes, text \in FairTexts, clock \in AutosizeClocks :
        autosize_step(code, text, clock)

\* a session without openbabel, constructed with the default options
InitFair ==
    /\ _has_openbabel = FALSE
    /\ Construct(NoKw)

NextAutosizeFair ==
    \/ \E call \in FairAddCalls : add_structure(call)
    \/ \E min_radius \in Radii, max_radius \in Radii, increment \in Increments :
          autosize_call(min_radius, max_radius, increment)
    \/ FairStep

SpecAutosizeFair ==
    InitFair /\ [][NextAutosizeFair]_vars /\ WF_vars(FairStep)

NextSeed ==
    \/ \E kwargs \in SeedKwargs : set_options(kwargs)
    \/ \E call \in RunAddCalls : add_structure(call)
    \/ \E clock \in Clocks : prepare_input_file(clock)

SpecSeed == InitDefault /\ [][NextSeed]_vars

(***************************************************************************)
(* Properties of autosize, checked under SpecAutosize.                     *)
(* A run "classifies as Success" when pack raised nothing (exc = ""), as   *)
(* SoftFailure when it raised FailToPack, and fails otherwise.             *)
(***************************************************************************)
\* the sizes min, min + inc, ... below max, for inc > 0
TestedSizes(min, max, inc) ==
    {x \in {min + k * inc : k \in 0..MaxRadius} : x < max}

SetMin(S) == CHOOSE x \in S : \A y \in S : x <= y

C3_OtherFailuresPropagate ==
    ret.op = "autosize" =>
        LET n == Len(runs)
        IN  /\ \A i \in 1..n :
                  ( \/ (runs[i].code # <<>> /\ runs[i].code # <<0>>)
                    \/ (runs[i].out # <<>>
                        /\ \E j \in 1..Len(runs[i].out[1]) :
                              runs[i].out[1][j] = "ERROR") )
                  => runs[i].exc \notin {"", "FailToPack"}
            /\ \A i \in 1..n :
                  runs[i].exc \notin {"", "FailToPack"} =>
                      /\ i = n
                      /\ pc = "idle"
                      /\ ret.exc = runs[i].exc
                      /\ ret.val = None
            /\ \A i \in 1..(n - 1) : runs[i].exc = "FailToPack"
            /\ pc = "autosize" => \A i \in 1..n : runs[i].exc = "FailToPack"

\* C3 witness: autosize(0, 4, 1) ended at its second size, with two sizes left,
\* by raising the Exception of a run that printed "ERROR"
C3_Witness ==
    /\ ret.op = "autosize"
    /\ ret.args = <<0, 4, 1>>
    /\ pc = "idle"
    /\ ret.exc = "Exception"
    /\ Len(runs) = 2
    /\ runs[1].exc = "FailToPack"
    /\ runs[2] = [r |-> 1, exc |-> "Exception", code |-> <<0>>, out |-> << <<"ERROR">> >>]

(***************************************************************************)
(* Properties of a single run, checked under SpecRun.  The packmol process *)
(* of a call of pack ran when the call assigned self._output_stash;        *)
(* ret.args = <<output, code, text>> are the output argument, the exit     *)
(* code and the captured output.                                           *)
(***************************************************************************)
PackRan == ret.op = "pack" /\ ret.output_stash # <<>>

HasMarker(text, marker) == \E i \in 1..Len(text) : text[i] = marker

\* C4: the outcome of a run is decided in this order: a non-zero exit code
\* raises Exception (HardFailure) whatever the text; otherwise "ERROR" in the
\* text raises Exception even when "STOP" is in it too; otherwise "STOP" raises
\* FailToPack (SoftFailure); otherwise pack raises nothing and returns the
\* result it stored.
C4_ClassificationOrder ==
    PackRan =>
        LET code == ret.args[2]
            text == ret.args[3]
        IN  /\ code # 0 => ret.exc = "Exception"
            /\ (code = 0 /\ HasMarker(text, "ERROR")) => ret.exc = "Exception"
            /\ (code = 0 /\ ~HasMarker(text, "ERROR") /\ HasMarker(text, "STOP"))
                  => ret.exc = "FailToPack"
            /\ (code = 0 /\ ~HasMarker(text, "ERROR") /\ ~HasMarker(text, "STOP"))
                  => /\ ret.exc = ""
                     /\ ret.val = TheLastResult
                     /\ _last_result # <<>>
                     /\ _last_result[1].packmol_output = text

\* C4 witness: a run with exit code 0 whose output holds "STOP" and "ERROR"
\* raised Exception
C4_Witness ==
    /\ PackRan
    /\ ret.args[2] = 0
    /\ ret.args[3] = <<"STOP", "ERROR">>
    /\ ret.exc = "Exception"

\* C5: a run that fails softly (exit code 0, "STOP" and no "ERROR") raises an
\* exception that an `except FailToPack` clause catches, and returns nothing; a
\* run that fails hard (non-zero exit code, or "ERROR") raises an exception
\* that no `except FailToPack` clause catches.
C5_SoftAndHardDistinct ==
    PackRan =>
        LET code == ret.args[2]
            text == ret.args[3]
            hard == code # 0 \/ HasMarker(text, "ERROR")
            soft == ~hard /\ HasMarker(text, "STOP")
        IN  /\ soft => /\ ret.exc # ""
                       /\ IsInstance(ret.exc, "FailToPack")
                       /\ ret.val = None
            /\ hard => /\ ret.exc # ""
                       /\ ~IsInstance(ret.exc, "FailToPack")
                       /\ ret.val = None

\* C5 witness: a run that printed "STOP" raised FailToPack, which is an
\* Exception too
C5_Witness ==
    /\ PackRan
    /\ ret.args[2] = 0
    /\ ret.args[3] = <<"STOP">>
    /\ ret.exc = "FailToPack"
    /\ IsInstance(ret.exc, "Exception")

\* C6: after every run, whatever its outcome, self._last_result is the result
\* of that run: its captured output and its output file.
C6_LastResultIsThisRun ==
    PackRan =>
        /\ _last_result # <<>>
        /\ _last_result[1].packmol_output = ret.output_stash[1]
        /\ _last_result[1].filename = _options["output"]

\* C7, as claimed: a call of pack, with or without an output argument and
\* whatever its outcome, leaves the structure list and every option unchanged.
C7_RunChangesNoOption ==
    [][ret'.op = "pack" =>
          /\ _structure_list' = _structure_list
          /\ _options' = _options]_vars

\* C7, amended: a call of pack leaves the structure list unchanged, and leaves
\* the options unchanged except that an output argument that is true becomes
\* the value of the option "output"; this holds whatever the outcome.
C7_RunChangesOnlyOutputOption ==
    [][ret'.op = "pack" =>
          LET output == ret'.args[1]
          IN  /\ _structure_list' = _structure_list
              /\ DOMAIN _options' = DOMAIN _options
              /\ \A k \in DOMAIN _options \ {"output"} : _options'[k] = _options[k]
              /\ _options'["output"] =
                    IF output.t = "str" /\ output.v # ""
                    THEN output
                    ELSE _options["output"]]_vars

\* C7 witness: a run with output "out.xyz" over a session with a structure
\* left "out.xyz" in the option "output"
C7_Witness ==
    /\ PackRan
    /\ ret.args[1] = Str("out.xyz")
    /\ _options["output"] = Str("out.xyz")
    /\ _structure_list # <<>>

(***************************************************************************)
(* Properties of the session store and of the serializer, checked under    *)
(* Spec.  The text a call of _prepare_input_file wrote is                  *)
(* ret.input_stash[1].                                                     *)
(***************************************************************************)
Serialized == ret.op = "_prepare_input_file" /\ ret.exc = ""

\* the positions of the lines of text that start with the token head
HeadPositions(text, head) ==
    SelectSeq([j \in 1..Len(text) |-> j], LAMBDA j : text[j][1] = head)

\* the lines of text before the first structure block
GlobalLines(text) ==
    LET starts == HeadPositions(text, "structure")
    IN  IF starts = <<>> THEN text ELSE SubSeq(text, 1, starts[1] - 1)

\* the number of lines of text that start with the token head
CountHead(text, head) == Len(HeadPositions(text, head))

\* C8: the constructor's keywords overwrite the defaults; a call of set_options
\* gives every option it names the value it names, leaves every other option
\* as it was, and adds no other name; and a serialized program carries, for
\* every option that is written through, exactly one line, with the value the
\* option holds, the seed line of a true integer seed carries that seed, and
\* every inside clause carries the dimension held.
C8_LastWriteWins ==
    /\ [](ret.op = "__init__" =>
            LET kwargs == ret.args[1]
            IN  /\ DOMAIN _options = DOMAIN DefaultOptions \cup DOMAIN kwargs
                /\ \A k \in DOMAIN kwargs : _options[k] = kwargs[k]
                /\ \A k \in DOMAIN DefaultOptions \ DOMAIN kwargs :
                      _options[k] = DefaultOptions[k])
    /\ [][ret'.op = "set_options" =>
            LET kwargs == ret'.args[1]
            IN  /\ DOMAIN _options' = DOMAIN _options \cup DOMAIN kwargs
                /\ \A k \in DOMAIN kwargs : _options'[k] = kwargs[k]
                /\ \A k \in DOMAIN _options \ DOMAIN kwargs :
                      _options'[k] = _options[k]]_vars
    /\ [](Serialized =>
            LET text == ret.input_stash[1]
                global == GlobalLines(text)
            IN  /\ \A k \in DOMAIN _options \ NONPACKMOL_OPTIONS :
                      /\ CountHead(global, k) = 1
                      /\ global[HeadPositions(global, k)[1]] = <<k, Fmt(_options[k])>>
                /\ (_options["seed"].t = "int" /\ _options["seed"].v > 0) =>
                      text[2] = <<"seed", ToString(_options["seed"].v % 1000000000)>>
                /\ \A j \in 1..Len(text) :
                      text[j][1] = "inside" =>
                          text[j][Len(text[j])] = Fmt(_options["dimension"]))

\* C8 witness: maxit was set to 5 (with seed 7) and then to 20, and the
\* program serialized afterwards carries "maxit 20" and "seed 7"
C8_Witness ==
    /\ Serialized
    /\ "maxit" \in DOMAIN _options
    /\ _options["maxit"] = Int_(20)
    /\ _options["seed"] = Int_(7)
    /\ \E j \in 1..Len(ret.input_stash[1]) : ret.input_stash[1][j] = <<"maxit", "20">>
    /\ ret.input_stash[1][2] = <<"seed", "7">>

\* C9: a call of clear leaves the structure list empty and every option as it
\* was; the program serialized from the session after it is produced without
\* error, holds no line of a structure block, and holds the line of every
\* option that is written through.
C9_ClearKeepsOptions ==
    /\ [][ret'.op = "clear" =>
            /\ _structure_list' = <<>>
            /\ _options' = _options
            /\ \A clock \in Clocks :
                  LET inp == PrepareInputFile(_options', _structure_list', clock)
                  IN  /\ ~inp.raised
                      /\ \A h \in {"structure", "number", "inside", "end"} :
                            CountHead(inp.text, h) = 0
                      /\ \A k \in DOMAIN _options \ NONPACKMOL_OPTIONS :
                            \E j \in 1..Len(inp.text) :
                                inp.text[j] = <<k, Fmt(_options[k])>>]_vars
    /\ []((ret.op = "_prepare_input_file" /\ _structure_list = <<>>) =>
            /\ ret.exc = ""
            /\ CountHead(ret.input_stash[1], "structure") = 0
            /\ CountHead(ret.input_stash[1], "end") = 0)

\* C9 witness: clear discarded two structures of a session whose option maxit
\* had been set
C9_Witness ==
    /\ ret.op = "clear"
    /\ ret.args[1] = 2
    /\ _structure_list = <<>>
    /\ "maxit" \in DOMAIN _options
    /\ _options["tolerance"] = Flt(2)

\* C10: a program serialized from n structures holds exactly n blocks, one
\* after the other in the order of the list; block i starts with the path of
\* the file of structure i, then its count, and holds one line for each of its
\* own options and no other option line, and ends with "end structure"; the
\* paths of different structures differ.
C10_BlocksInInsertionOrder ==
    Serialized =>
        LET text == ret.input_stash[1]
            n == Len(_structure_list)
            starts == HeadPositions(text, "structure")
            ends == HeadPositions(text, "end")
        IN  /\ Len(starts) = n
            /\ Len(ends) = n
            /\ CountHead(text, "number") = n
            /\ n > 0 => ends[n] = Len(text)
            /\ \A i \in 1..n :
                  LET mol == _structure_list[i]
                      block == SubSeq(text, starts[i], ends[i])
                      own == {j \in 3..(Len(block) - 1) : block[j][1] # "inside"}
                  IN  /\ starts[i] < ends[i]
                      /\ i < n => starts[i + 1] = ends[i] + 1
                      /\ block[1] = <<"structure", mol.structure.name>>
                      /\ block[2] = <<"number", ToString(mol.number)>>
                      /\ block[Len(block)] = <<"end", "structure">>
                      /\ Cardinality(own) = Cardinality(DOMAIN mol.options)
                      /\ {block[j] : j \in own}
                            = {<<k, Fmt(mol.options[k])>> : k \in DOMAIN mol.options}
            /\ \A i, j \in 1..n :
                  i # j => _structure_list[i].structure.name
                              # _structure_list[j].structure.name

\* C10 witness: the serialized program of a session that holds the SMILES
\* structure (count 2, two options) before the water file (count 1)
C10_Witness ==
    /\ Serialized
    /\ Len(_structure_list) = 2
    /\ _structure_list[1].number = 2
    /\ DOMAIN _structure_list[1].options = {"center", "fixed"}
    /\ _structure_list[2].number = 1
    /\ CountHead(ret.input_stash[1], "structure") = 2

(***************************************************************************)
(* C11 - C15: the region, the structure list and the last result.          *)
(***************************************************************************)
\* C11: whenever the option region_type holds a non-empty value other than
\* "sphere", _prepare_input_file raises NotImplementedError and produces no
\* program, whatever the structure list holds, the empty list included.
C11_UnsupportedRegionAlwaysFails ==
    (/\ ret.op = "_prepare_input_file"
     /\ Truthy(_options["region_type"])
     /\ _options["region_type"] # Str("sphere"))
        => (ret.exc = "NotImplementedError" /\ ret.input_stash = <<>>)

\* the lines of the i-th structure block of text
Block(text, i) ==
    SubSeq(text, HeadPositions(text, "structure")[i], HeadPositions(text, "end")[i])

\* C12: with an empty or false region_type the program is serialized and no
\* line of it is an inside clause; with region_type "sphere" the program is
\* serialized and every structure block holds exactly one inside clause,
\* "inside sphere 0.0 0.0 0.0 <dimension>", with the dimension the session
\* holds when it is serialized.
C12_RegionClause ==
    ret.op = "_prepare_input_file" =>
        /\ ~Truthy(_options["region_type"]) =>
              /\ ret.exc = ""
              /\ CountHead(ret.input_stash[1], "inside") = 0
        /\ _options["region_type"] = Str("sphere") =>
              /\ ret.exc = ""
              /\ LET text == ret.input_stash[1]
                 IN  /\ CountHead(text, "structure") = Len(_structure_list)
                     /\ CountHead(text, "inside") = Len(_structure_list)
                     /\ \A i \in 1..Len(_structure_list) :
                           /\ CountHead(Block(text, i), "inside") = 1
                           /\ Block(text, i)[3] =
                                 <<"inside", "sphere", "0.0", "0.0", "0.0",
                                   Fmt(_options["dimension"])>>

\* C12 witness: two blocks serialized with region_type "sphere" after the
\* dimension was set to 7
C12_Witness ==
    /\ Serialized
    /\ _options["region_type"] = Str("sphere")
    /\ _options["dimension"] = Int_(7)
    /\ Len(_structure_list) = 2
    /\ CountHead(ret.input_stash[1], "inside") = 2

\* C12 witness of the other case: a block serialized with an empty region_type
C12_WitnessEmpty ==
    /\ Serialized
    /\ _options["region_type"] = Str("")
    /\ Len(_structure_list) = 1
    /\ CountHead(ret.input_stash[1], "structure") = 1

\* C13: a call of add_structure that raises leaves the structure list and the
\* options as they were; a call that returns leaves the list one entry longer,
\* the entries it held in their places, the new entry last with the count and
\* the options of the call, and the options as they were.  A SMILES string
\* that is not parsed, a file of declared format xyz that cannot be opened,
\* and a format other than xyz without openbabel all make the call raise.
C13_AddIsAllOrNothing ==
    [][ret'.op = "add_structure" =>
          LET call == ret'.args[1]
              n == Len(_structure_list)
              fmt == ResolveFormat(call.input_data, call.input_format)
          IN  /\ _options' = _options
              /\ _last_result' = _last_result
              /\ IF ret'.exc # ""
                 THEN _structure_list' = _structure_list
                 ELSE /\ Len(_structure_list') = n + 1
                      /\ SubSeq(_structure_list', 1, n) = _structure_list
                      /\ _structure_list'[n + 1].number = call.count
                      /\ _structure_list'[n + 1].options = call.kwargs
              /\ (fmt = "xyz" /\ ~Openable(call.input_data)) => ret'.exc # ""
              /\ (fmt # "xyz" /\ ~_has_openbabel) => ret'.exc # ""
              /\ (fmt = "smi" /\ call.input_data \notin ValidSmiles) => ret'.exc # ""
    ]_vars

\* C13 witness: a call for a file that cannot be opened has raised and the
\* session still holds the one structure it held
C13_Witness ==
    /\ ret.op = "add_structure"
    /\ ret.exc = "IOError"
    /\ ret.args[1].input_data = "missing_xyz"
    /\ Len(_structure_list) = 1

\* C14: every entry of the structure list holds a count of at least 1,
\* whatever count the call of add_structure gave.
C14_CountAtLeastOne ==
    \A i \in 1..Len(_structure_list) : _structure_list[i].number >= 1

\* C15: a new session holds no last result; add_structure, clear and
\* set_options leave it as it is; it comes to hold one only in a step of pack
\* in which the packmol process has run to its end; and while it holds none
\* last_result() raises AttributeError.
C15_NoResultBeforeARun ==
    /\ _last_result = <<>>
    /\ [][/\ ret'.op \in {"add_structure", "clear", "set_options", "last_result"}
             => _last_result' = _last_result
          /\ (_last_result = <<>> /\ _last_result' # <<>>)
             => (ret'.op = "pack" /\ ret'.output_stash # <<>>)]_vars
    /\ [](ret.op = "last_result" =>
             (ret.exc = "AttributeError" <=> _last_result = <<>>))

\* C15 witness: last_result() was called on a session that holds a structure
\* and no result of a run
C15_Witness ==
    /\ ret.op = "last_result"
    /\ ret.exc = "AttributeError"
    /\ Len(_structure_list) = 1
    /\ _last_result = <<>>

(***************************************************************************)
(* C16 - C20: the end of autosize, the option lines, the conversion, the   *)
(* seed line and what autosize changes.                                    *)
(***************************************************************************)
\* the arguments of the call of autosize that is running or has ended
TheMinRadius == ret.args[1]
TheMaxRadius == ret.args[2]
TheIncrement == ret.args[3]

\* the number of sizes min, min + inc, ... that lie before max in the
\* direction of inc
StepsTo(min, max, inc) ==
    IF inc > 0 /\ min < max THEN (max - min + inc - 1) \div inc
    ELSE IF inc < 0 /\ min > max THEN (min - max - inc - 1) \div (0 - inc)
    ELSE 0

InternalOnly == {"command_line", "region_type", "dimension", "opt_force_field", "seed"}

\* C17: the lines of a serialized program before the first structure block
\* are the filetype line, the seed line and then, for every option that is
\* not internal, names the code does not know included, exactly one line
\* "<name> <value>"; no line of them names an internal option.
C17_PassThroughOptions ==
    Serialized =>
        LET global == GlobalLines(ret.input_stash[1])
            lines == SubSeq(global, 3, Len(global))
            through == DOMAIN _options \ InternalOnly
        IN  /\ Len(global) >= 2
            /\ global[1] = <<"filetype", "xyz">>
            /\ Len(global[2]) = 2
            /\ global[2][1] = "seed"
            /\ Len(lines) = Cardinality(through)
            /\ {lines[j] : j \in 1..Len(lines)}
                  = {<<k, Fmt(_options[k])>> : k \in through}
            /\ \A j \in 1..Len(lines) : lines[j][1] \notin InternalOnly

\* C17 witness: a program with a structure block serialized while the option
\* maxit, a name the code does not know, holds 5
C17_Witness ==
    /\ Serialized
    /\ Len(_structure_list) = 1
    /\ "maxit" \in DOMAIN _options
    /\ _options["maxit"] = Int_(5)
    /\ \E j \in 3..Len(GlobalLines(ret.input_stash[1])) :
          ret.input_stash[1][j] = <<"maxit", "5">>

\* C18: with openbabel, add_structure of a file that can be opened and whose
\* format is neither xyz nor SMILES converts the file and does not raise.
C18_FileFormatIsConverted ==
    (/\ ret.op = "add_structure"
     /\ _has_openbabel
     /\ Openable(ret.args[1].input_data)
     /\ ResolveFormat(ret.args[1].input_data, ret.args[1].input_format)
           \notin {"xyz", "smi"})
        => ret.exc = ""

\* C19: the seed line of every serialized program carries an integer s with
\* 0 <= s < 10^9; with a true seed the program is the same whatever the
\* clock reads, so that a session serialized twice without a change between
\* gives the same text twice; with a seed of None or 0 the seed line is the
\* one of the clock.
C19_SeedLine ==
    /\ [](Serialized =>
            LET text == ret.input_stash[1]
            IN  /\ \E clock \in Clocks :
                      /\ SeedValue(_options, clock) \in 0..999999999
                      /\ text[2] = <<"seed", ToString(SeedValue(_options, clock))>>
                /\ Truthy(_options["seed"]) =>
                      \A clock \in Clocks :
                          text = PrepareInputFile(_options, _structure_list, clock).text
                /\ ~Truthy(_options["seed"]) =>
                      \E clock \in Clocks :
                          text[2] = <<"seed", ToString(Hash(clock) % 1000000000)>>)
    /\ [][(/\ Serialized
           /\ Serialized'
           /\ Truthy(_options["seed"])
           /\ _options' = _options
           /\ _structure_list' = _structure_list)
              => ret'.input_stash = ret.input_stash]_vars

\* C19 witness: a program with a structure block serialized with the seed -1,
\* whose hash is -2
C19_Witness ==
    /\ Serialized
    /\ _options["seed"] = Int_(-1)
    /\ Len(_structure_list) = 1
    /\ ret.input_stash[1][2] = <<"seed", "999999998">>

\* C20 as stated: with min_radius >= max_radius autosize makes no run.
C20_NoRunWhenMinNotBelowMax ==
    (ret.op = "autosize" /\ TheMinRadius >= TheMaxRadius) => runs = <<>>

\* C20: a step of autosize leaves the structure list and every option but
\* dimension as they were; after a run the option dimension holds the size of
\* that run, and the program of the run carries it in every inside clause; so
\* it holds r when r is returned and the size of the last run when None is
\* returned or a failure is raised; and when the range is empty (min_radius
\* >= max_radius with a positive increment, min_radius <= max_radius with a
\* negative one) or the increment is 0, no run is made and no option and no
\* last result is changed.
C20_AutosizeFrame ==
    /\ [][ret'.op = "autosize" =>
            /\ _structure_list' = _structure_list
            /\ DOMAIN _options' = DOMAIN _options
            /\ \A k \in DOMAIN _options \ {"dimension"} : _options'[k] = _options[k]
            /\ runs' = <<>> => (_options' = _options /\ _last_result' = _last_result)
         ]_vars
    /\ [](ret.op = "autosize" =>
            /\ runs # <<>> =>
                  /\ _options["dimension"] = Int_(runs[Len(runs)].r)
                  /\ ret.input_stash # <<>> =>
                        \A j \in 1..Len(ret.input_stash[1]) :
                            ret.input_stash[1][j][1] = "inside" =>
                                ret.input_stash[1][j][6] = ToString(runs[Len(runs)].r)
            /\ (ret.exc = "" /\ ret.val \notin {None, Running}) =>
                  ret.val = _options["dimension"]
            /\ StepsTo(TheMinRadius, TheMaxRadius, TheIncrement) = 0 =>
                  /\ runs = <<>>
                  /\ pc = "idle"
                  /\ TheIncrement # 0 => (ret.exc = "" /\ ret.val = None)
                  /\ TheIncrement = 0 => ret.exc # "")

\* C20 witness: autosize(0, 4, 1) has ended at its second run, which raised
\* an error that is not FailToPack; the dimension, 10 before the call, is 1
C20_Witness ==
    /\ ret.op = "autosize"
    /\ ret.args = <<0, 4, 1>>
    /\ pc = "idle"
    /\ ret.exc = "Exception"
    /\ Len(runs) = 2
    /\ _options["dimension"] = Int_(1)
    /\ Len(_structure_list) = 1

====
